---------------------------- MODULE Spec2Model ----------------------------
(***************************************************************************)
(* A model of the CHIP-8 interpreter of src/main.cpp: the Chip8 struct,    *)
(* its loader (read_program_to_mem), its decode/execute engine             *)
(* (decode_instruction, execute_cycle), its timers (update_timers) and the *)
(* key buffer the input layer writes.                                      *)
(*                                                                         *)
(* The machine is one record, c8, with the fields of struct Chip8.  mem is *)
(* kept sparse (an address that was never written holds 0, as the struct's *)
(* initializer leaves it) and pixels is the set of the coordinates whose   *)
(* byte is 1 (the code only ever stores 0 or 1 in pixels[x][y]).           *)
(*                                                                         *)
(* An access outside an array (mem, stack, keys) is undefined behaviour in *)
(* C++.  The model records the access, leaves the machine as it was and    *)
(* sets status to "undefined": it states nothing about what the build does *)
(* from there on, and no action is taken from such a state.                *)
(***************************************************************************)
EXTENDS Integers, Sequences, FiniteSets, TLC

VARIABLES
    c8,         \* the Chip8 struct (main.cpp:113-138)
    debug_mode, \* whether the build defines DEBUG_MODE (NOT_REACHED asserts)
    status,     \* "running", "aborted" (assert(0)) or "undefined" (UB)
    loaded,     \* whether read_program_to_mem has been called
    pre,        \* history: the machine just before the last load or cycle
    pre2,       \* history: the machine just before the load or cycle before that
    call,       \* history: which the last one was, "none", "load" or "step"
    call2,      \* history: which the one before that was
    fresh,      \* history: no timer tick and no key write since the last one
    shadow,     \* history: the open calls, <<call site, sp before>>, newest last
    popped,     \* history: the frame the last 00EE closed (or NoFrame)
    file,       \* history: the contents of the file the last load read
    loads,      \* history: how many times read_program_to_mem was called
    driver      \* main's loop: where it is, and what it has run

vars == <<c8, debug_mode, status, loaded, pre, pre2, call, call2, fresh, shadow, popped,
          file, loads, driver>>

---------------------------------------------------------------------------
(* Program constants *)

WIDTH == 64
HEIGHT == 32
MEM_SIZE == 4096
STACK_SIZE == 16
NUM_KEYS == 16
PROGRAM_START == 512
fonts_offset == 5
INSTRUCTIONS_PER_FRAME == 9

fonts ==
    << 240, 144, 144, 144, 240,
        32,  96,  32,  32, 112,
       240,  16, 240, 128, 240,
       240,  16, 240,  16, 240,
       144, 144, 240,  16,  16,
       240, 128, 240,  16, 240,
       240, 128, 240, 144, 240,
       240,  16,  32,  64,  64,
       240, 144, 240, 144, 240,
       240, 144, 240,  16, 240,
       240, 144, 240, 144, 144,
       224, 144, 224, 144, 224,
       240, 128, 128, 128, 240,
       224, 144, 144, 144, 224,
       240, 128, 240, 128, 240,
       240, 128, 240, 128, 128 >>

---------------------------------------------------------------------------
(* Fixed-width arithmetic on u8 and u16 *)

U8(n) == n % 256
U16(n) == n % 65536

RECURSIVE BitOp(_, _, _, _)
\* op is a function on <<bit, bit>>; n is the number of bits still to do
BitOp(op, a, b, n) ==
    IF n = 0 THEN 0
    ELSE op[a % 2, b % 2] + 2 * BitOp(op, a \div 2, b \div 2, n - 1)

OrBit == [p \in {0, 1} \X {0, 1} |-> IF p[1] = 1 \/ p[2] = 1 THEN 1 ELSE 0]
AndBit == [p \in {0, 1} \X {0, 1} |-> IF p[1] = 1 /\ p[2] = 1 THEN 1 ELSE 0]
XorBit == [p \in {0, 1} \X {0, 1} |-> IF p[1] # p[2] THEN 1 ELSE 0]

\* |, & and ^ on operands of at most 16 bits
BitOr(a, b) == BitOp(OrBit, a, b, 16)
BitAnd(a, b) == BitOp(AndBit, a, b, 16)
BitXor(a, b) == BitOp(XorBit, a, b, 16)

Bool(b) == IF b THEN 1 ELSE 0

---------------------------------------------------------------------------
(* The struct and its arrays *)

MemAt(m, a) == IF a \in DOMAIN m.mem THEN m.mem[a] ELSE 0

MemWrite(mem, a, v) ==
    [x \in (DOMAIN mem) \cup {a} |-> IF x = a THEN v ELSE mem[x]]

PixelAt(pixels, px, py) == IF <<px, py>> \in pixels THEN 1 ELSE 0

PixelWrite(pixels, px, py, v) ==
    IF v = 1 THEN pixels \cup {<<px, py>>} ELSE pixels \ {<<px, py>>}

Chip8 ==
    [ mem          |-> [a \in {} |-> 0],
      pixels       |-> {},
      v_reg        |-> [r \in 0..15 |-> 0],
      delay_timer  |-> 0,
      sound_timer  |-> 0,
      keys         |-> [k \in 0..15 |-> 0],
      sp           |-> 0,
      stack        |-> [s \in 0..15 |-> 0],
      pc           |-> PROGRAM_START,
      i_addr_reg   |-> 0,
      program_size |-> 0,
      cycle_count  |-> 0 ]

---------------------------------------------------------------------------
(* Operand fields of an opcode <<opcode1, opcode2>> *)

OpX(opcode1) == opcode1 % 16
OpY(opcode2) == opcode2 \div 16
OpN(opcode2) == opcode2 % 16
OpNNN(opcode1, opcode2) == BitOr((opcode1 % 16) * 256, opcode2)

\* pc += 2 on a u16
AdvancePc(m) == [m EXCEPT !.pc = U16(m.pc + 2)]
\* the skip left out: pc += 2 whatever the condition
SkipNever(m, cond) == AdvancePc(m)

\* if (cond) { pc += 2; } pc += 2
SkipIf(m, cond) == AdvancePc(IF cond THEN AdvancePc(m) ELSE m)

---------------------------------------------------------------------------
(* Case 0xD: the sprite draw *)

\* a slip: the two moduli exchanged
DrawCoordSwapped(j, x, i, y) == <<(j + x) % HEIGHT, (i + y) % WIDTH>>

\* pixels[(j + x) % WIDTH][(i + y) % HEIGHT]
DrawCoord(j, x, i, y) == <<(j + x) % WIDTH, (i + y) % HEIGHT>>

\* a slip: the sprite ORed in
DisplayPixelOr(current_pixel, old_pixel) == BitOr(current_pixel, old_pixel)

\* display_pixel = current_pixel ^ old_pixel
DisplayPixel(current_pixel, old_pixel) == BitXor(current_pixel, old_pixel)

\* the test that sets v_reg[0xF] to 1
Collision(old_pixel, display_pixel) == old_pixel = 1 /\ display_pixel = 0

RECURSIVE DrawColumns(_, _, _, _, _, _, _)
\* the inner loop, for (u8 j = 0; j < 8; ++j), on the framebuffer and v_reg[0xF]
DrawColumns(pixels, vf, sprite_bits, x, y, i, j) ==
    IF j >= 8 THEN [pixels |-> pixels, vf |-> vf]
    ELSE
        LET current_pixel == sprite_bits \div 128
            at == DrawCoord(j, x, i, y)
            old_pixel == PixelAt(pixels, at[1], at[2])
            display_pixel == DisplayPixel(current_pixel, old_pixel)
            drawn == PixelWrite(pixels, at[1], at[2], display_pixel)
        IN  IF Collision(old_pixel, display_pixel)
            THEN DrawColumns(drawn, 1, U8(sprite_bits * 2), x, y, i, j + 1)
            ELSE DrawColumns(drawn, vf, U8(sprite_bits * 2), x, y, i, j + 1)

RECURSIVE DrawRows(_, _, _, _, _, _)
\* the outer loop, for (u8 i = 0; i < pixel_height; ++i); st is [pixels, vf]
DrawRows(m, st, x, y, pixel_height, i) ==
    IF i >= pixel_height THEN st
    ELSE DrawRows(m,
                  DrawColumns(st.pixels, st.vf, MemAt(m, m.i_addr_reg + i), x, y, i, 0),
                  x, y, pixel_height, i + 1)

Draw(m, opcode1, opcode2) ==
    LET x == m.v_reg[OpX(opcode1)]
        y == m.v_reg[OpY(opcode2)]
        pixel_height == OpN(opcode2)
        st == DrawRows(m, [pixels |-> m.pixels, vf |-> 0], x, y, pixel_height, 0)
    IN  AdvancePc([m EXCEPT !.pixels = st.pixels, !.v_reg[15] = st.vf])

---------------------------------------------------------------------------
(* Case 0x8: register arithmetic.  The code writes v_reg[0xF] first and    *)
(* v_reg[x] second, reading the registers again for the second write.      *)

\* the shift of the other CHIP-8 dialect: Vx := Vy >> 1
ShiftRightOfVy(v, x, y) ==
    LET f == [v EXCEPT ![15] = v[y] % 2]
    IN  [f EXCEPT ![x] = f[y] \div 2]

\* v_reg[0x0F] = v_reg[x] & 0x01; v_reg[x] >>= 1
ShiftRight(v, x, y) ==
    LET f == [v EXCEPT ![15] = v[x] % 2]
    IN  [f EXCEPT ![x] = f[x] \div 2]

\* v_reg[0x0F] = (v_reg[x] & 0x80) > 1; v_reg[x] <<= 1
ShiftLeft(v, x, y) ==
    LET f == [v EXCEPT ![15] = Bool(BitAnd(v[x], 128) > 1)]
    IN  [f EXCEPT ![x] = U8(f[x] * 2)]

Alu(m, opcode1, opcode2) ==
    LET x == OpX(opcode1)
        y == OpY(opcode2)
        n == OpN(opcode2)
        v == m.v_reg
    IN  CASE n = 0 -> AdvancePc([m EXCEPT !.v_reg[x] = v[y]])
          [] n = 1 -> AdvancePc([m EXCEPT !.v_reg[x] = BitOr(v[x], v[y])])
          [] n = 2 -> AdvancePc([m EXCEPT !.v_reg[x] = BitAnd(v[x], v[y])])
          [] n = 3 -> AdvancePc([m EXCEPT !.v_reg[x] = BitXor(v[x], v[y])])
          [] n = 4 ->
                LET res == v[x] + v[y]
                    f == [v EXCEPT ![15] = Bool(res > 255)]
                IN  AdvancePc([m EXCEPT !.v_reg = [f EXCEPT ![x] = res % 256]])
          [] n = 5 ->
                LET f == [v EXCEPT ![15] = Bool(v[x] > v[y])]
                IN  AdvancePc([m EXCEPT !.v_reg = [f EXCEPT ![x] = U8(f[x] - f[y])]])
          [] n = 6 -> AdvancePc([m EXCEPT !.v_reg = ShiftRight(v, x, y)])
          [] n = 7 ->
                LET f == [v EXCEPT ![15] = Bool(v[y] > v[x])]
                IN  AdvancePc([m EXCEPT !.v_reg = [f EXCEPT ![x] = U8(f[y] - f[x])]])
          [] n = 14 -> AdvancePc([m EXCEPT !.v_reg = ShiftLeft(v, x, y)])
          [] OTHER -> m

---------------------------------------------------------------------------
(* Cases 0x0 and 0x2: return and call *)

\* a slip: the address of the call itself
ReturnAddressOfCall(m) == m.pc

\* what 2NNN stores in stack[sp]: pc + 2, in a u16
ReturnAddress(m) == U16(m.pc + 2)

\* stack[sp++] = pc + 2; pc = NNN
CallSubroutine(m, opcode1, opcode2) ==
    [m EXCEPT !.stack[m.sp] = ReturnAddress(m),
              !.sp = U8(m.sp + 1),
              !.pc = OpNNN(opcode1, opcode2)]

\* pc = stack[--sp]
ReturnFromSubroutine(m) ==
    LET sp1 == U8(m.sp - 1)
    IN  [m EXCEPT !.sp = sp1, !.pc = m.stack[sp1]]

---------------------------------------------------------------------------
(* Case 0xF *)

\* the scan started at the second key
AnyKeyAfterFirst(m) == \E i \in 1..(NUM_KEYS - 1) : m.keys[i] # 0

\* for (u8 i = 0; i < sizeof(keys); ++i) if (keys[i] != 0)
AnyKey(m) == \E i \in 0..(NUM_KEYS - 1) : m.keys[i] # 0

RECURSIVE RegDump(_, _, _)
\* for (u8 i = 0; i <= x; ++i) mem[i_addr_reg + i] = v_reg[i]
RegDump(m, x, i) ==
    IF i > x THEN m
    ELSE RegDump([m EXCEPT !.mem = MemWrite(m.mem, m.i_addr_reg + i, m.v_reg[i])],
                 x, i + 1)

RECURSIVE RegLoad(_, _, _)
\* for (u8 i = 0; i <= x; ++i) v_reg[i] = mem[i_addr_reg + i]
RegLoad(m, x, i) ==
    IF i > x THEN m
    ELSE RegLoad([m EXCEPT !.v_reg[i] = MemAt(m, m.i_addr_reg + i)], x, i + 1)

\* the tens taken without the % 100
BcdTensNotCut(m, x) ==
    LET value == m.v_reg[x]
        m1 == MemWrite(m.mem, m.i_addr_reg, value \div 100)
        m2 == MemWrite(m1, m.i_addr_reg + 1, value \div 10)
        m3 == MemWrite(m2, m.i_addr_reg + 2, value % 10)
    IN  [m EXCEPT !.mem = m3]

Bcd(m, x) ==
    LET value == m.v_reg[x]
        m1 == MemWrite(m.mem, m.i_addr_reg, value \div 100)
        m2 == MemWrite(m1, m.i_addr_reg + 1, (value % 100) \div 10)
        m3 == MemWrite(m2, m.i_addr_reg + 2, value % 10)
    IN  [m EXCEPT !.mem = m3]

Misc(m, opcode1, opcode2) ==
    LET x == OpX(opcode1)
    IN  CASE opcode2 = 7 -> AdvancePc([m EXCEPT !.v_reg[x] = m.delay_timer])
          [] opcode2 = 10 ->
                IF AnyKey(m) THEN AdvancePc([m EXCEPT !.v_reg[x] = 1]) ELSE m
          [] opcode2 = 21 -> AdvancePc([m EXCEPT !.delay_timer = m.v_reg[x]])
          [] opcode2 = 24 -> AdvancePc([m EXCEPT !.sound_timer = m.v_reg[x]])
          [] opcode2 = 30 ->
                AdvancePc([m EXCEPT !.i_addr_reg = U16(m.i_addr_reg + m.v_reg[x])])
          [] opcode2 = 41 ->
                AdvancePc([m EXCEPT !.i_addr_reg = m.v_reg[x] * fonts_offset])
          [] opcode2 = 51 -> AdvancePc(Bcd(m, x))
          [] opcode2 = 85 -> AdvancePc(RegDump(m, x, 0))
          [] opcode2 = 101 -> AdvancePc(RegLoad(m, x, 0))
          [] OTHER -> m

---------------------------------------------------------------------------
(* Case 0xE *)

\* the invalid opcode stepped over: pc += 2 in the default branch
KeySkipPastInvalid(m, opcode1, opcode2) ==
    LET x == OpX(opcode1)
    IN  CASE opcode2 = 158 -> SkipIf(m, m.keys[m.v_reg[x]] = 1)
          [] opcode2 = 161 -> SkipIf(m, m.keys[m.v_reg[x]] = 0)
          [] OTHER -> AdvancePc(m)

KeySkip(m, opcode1, opcode2) ==
    LET x == OpX(opcode1)
    IN  CASE opcode2 = 158 -> SkipIf(m, m.keys[m.v_reg[x]] = 1)
          [] opcode2 = 161 -> SkipIf(m, m.keys[m.v_reg[x]] = 0)
          [] OTHER -> m

---------------------------------------------------------------------------
(* decode_instruction: the switch on opcode1 >> 4.  rnd is rand() % 256.   *)

\* case 0xB: pc = v_reg[0] + NNN; pc += 2
JumpV0(m, opcode1, opcode2) ==
    AdvancePc([m EXCEPT !.pc = U16(m.v_reg[0] + OpNNN(opcode1, opcode2))])

decode_instruction(m, opcode1, opcode2, rnd) ==
    LET g == opcode1 \div 16
        x == OpX(opcode1)
        y == OpY(opcode2)
    IN  CASE g = 0 ->
                IF opcode1 = 0 /\ opcode2 = 224
                THEN AdvancePc([m EXCEPT !.pixels = {}])
                ELSE IF opcode1 = 0 /\ opcode2 = 238
                THEN ReturnFromSubroutine(m)
                ELSE m
          [] g = 1 -> [m EXCEPT !.pc = OpNNN(opcode1, opcode2)]
          [] g = 2 -> CallSubroutine(m, opcode1, opcode2)
          [] g = 3 -> SkipIf(m, m.v_reg[x] = opcode2)
          [] g = 4 -> SkipIf(m, m.v_reg[x] # opcode2)
          [] g = 5 -> SkipIf(m, m.v_reg[x] = m.v_reg[y])
          [] g = 6 -> AdvancePc([m EXCEPT !.v_reg[x] = opcode2])
          [] g = 7 -> AdvancePc([m EXCEPT !.v_reg[x] = U8(m.v_reg[x] + opcode2)])
          [] g = 8 -> Alu(m, opcode1, opcode2)
          [] g = 9 -> SkipIf(m, m.v_reg[x] # m.v_reg[y])
          [] g = 10 -> AdvancePc([m EXCEPT !.i_addr_reg = OpNNN(opcode1, opcode2)])
          [] g = 11 -> JumpV0(m, opcode1, opcode2)
          [] g = 12 -> AdvancePc([m EXCEPT !.v_reg[x] = BitAnd(rnd, opcode2)])
          [] g = 13 -> Draw(m, opcode1, opcode2)
          [] g = 14 -> KeySkip(m, opcode1, opcode2)
          [] OTHER -> Misc(m, opcode1, opcode2)

\* the branches that end in NOT_REACHED(): assert(0) under DEBUG_MODE, nothing otherwise
NotReached(opcode1, opcode2) ==
    LET g == opcode1 \div 16
    IN  \/ g = 0 /\ ~(opcode1 = 0 /\ opcode2 \in {224, 238})
        \/ g = 8 /\ OpN(opcode2) \notin (0..7) \cup {14}
        \/ g = 14 /\ opcode2 \notin {158, 161}
        \/ g = 15 /\ opcode2 \notin {7, 10, 21, 24, 30, 41, 51, 85, 101}

---------------------------------------------------------------------------
(* What one execute_cycle touches, computed from the machine before it *)

\* &mem[pc], then op_buffer[0] and op_buffer[1]
FetchAddrs(m) == {m.pc, m.pc + 1}
FetchInBounds(m) == FetchAddrs(m) \subseteq 0..(MEM_SIZE - 1)

Opcode1(m) == MemAt(m, m.pc)
Opcode2(m) == MemAt(m, m.pc + 1)
OpWord(m) == Opcode1(m) * 256 + Opcode2(m)

\* the addresses of mem the instruction at pc reads or writes, the fetch apart
OperandAddrs(m) ==
    LET g == Opcode1(m) \div 16
        x == OpX(Opcode1(m))
        I == m.i_addr_reg
    IN  IF g = 13 THEN {I + i : i \in 0..(OpN(Opcode2(m)) - 1)}
        ELSE IF g = 15 /\ Opcode2(m) = 51 THEN {I, I + 1, I + 2}
        ELSE IF g = 15 /\ Opcode2(m) \in {85, 101} THEN {I + i : i \in 0..x}
        ELSE {}

\* every address of mem the cycle touches; after a fetch outside mem the opcode,
\* and so the rest, is unknown
MemAddrs(m) ==
    IF FetchInBounds(m) THEN FetchAddrs(m) \cup OperandAddrs(m) ELSE FetchAddrs(m)

\* the entries of stack[] the instruction at pc reads or writes
StackIndices(m) ==
    IF ~FetchInBounds(m) THEN {}
    ELSE IF Opcode1(m) \div 16 = 2 THEN {m.sp}
    ELSE IF Opcode1(m) = 0 /\ Opcode2(m) = 238 THEN {U8(m.sp - 1)}
    ELSE {}

\* the entries of keys[] the instruction at pc reads (FX0A stays inside its loop)
KeyIndices(m) ==
    IF ~FetchInBounds(m) THEN {}
    ELSE IF Opcode1(m) \div 16 = 14 /\ Opcode2(m) \in {158, 161}
    THEN {m.v_reg[OpX(Opcode1(m))]}
    ELSE {}

\* the cycle stays inside every array it indexes
InBounds(m) ==
    /\ MemAddrs(m) \subseteq 0..(MEM_SIZE - 1)
    /\ StackIndices(m) \subseteq 0..(STACK_SIZE - 1)
    /\ KeyIndices(m) \subseteq 0..(NUM_KEYS - 1)

\* execute_cycle: decode_instruction(&mem[pc]); return ++cycle_count
execute_cycle(m, rnd) ==
    [decode_instruction(m, Opcode1(m), Opcode2(m), rnd)
        EXCEPT !.cycle_count = @ + 1]

---------------------------------------------------------------------------
(* update_timers *)

\* the decrements without their guards
update_timersUnguarded(m) ==
    [m EXCEPT !.delay_timer = U8(@ - 1), !.sound_timer = U8(@ - 1)]

update_timers(m) ==
    [m EXCEPT !.delay_timer = IF @ > 0 THEN @ - 1 ELSE @,
              !.sound_timer = IF @ > 0 THEN @ - 1 ELSE @]

---------------------------------------------------------------------------
(* read_program_to_mem on a file that opens, of contents bytes *)

\* memcpy(mem + at, bytes, n)
CopyBytes(mem, at, bytes, n) ==
    [x \in (DOMAIN mem) \cup (at..(at + n - 1)) |->
        IF x \in at..(at + n - 1) THEN bytes[x - at + 1] ELSE mem[x]]

\* program_size = ftell(file), into a u16
ProgramSize(bytes) == U16(Len(bytes))

\* fread(mem + pc, 1, program_size, file) stays inside mem
LoadInBounds(bytes) == PROGRAM_START + ProgramSize(bytes) <= MEM_SIZE

read_program_to_mem(m, bytes) ==
    LET withFonts == CopyBytes(m.mem, 0, fonts, Len(fonts))
        n == ProgramSize(bytes)
    IN  [m EXCEPT !.mem = CopyBytes(withFonts, PROGRAM_START, bytes, n),
                  !.program_size = n,
                  !.pc = PROGRAM_START]

---------------------------------------------------------------------------
(* Bounds of the model and the inputs it draws *)

\* execute_cycle is not called once cycle_count has reached this
MaxCycles == 7
\* the same, for the runs that fill the stack
MaxDeepCycles == 18
\* register operands are drawn from 0..MaxSmall and from the values around
\* the sign bit and the top of a byte
MaxSmall == 1
\* the input layer writes keys[0..MaxKey]
MaxKey == 0

ByteVals == (0..MaxSmall) \cup {128, 255}
\* the values rand() % 256 is drawn from
RandVals == (0..MaxSmall) \cup {255}

Op(g, x, y, n) == g * 4096 + x * 256 + y * 16 + n
OpNN(g, x, nn) == g * 4096 + x * 256 + nn
OpAddr(g, nnn) == g * 4096 + nnn

RECURSIVE Assemble(_)
\* the bytes of a sequence of opcodes, big-endian
Assemble(words) ==
    IF words = <<>> THEN <<>>
    ELSE <<Head(words) \div 256, Head(words) % 256>> \o Assemble(Tail(words))

\* two registers set, then one instruction on them (8XYN, 5XYN, 9XYN)
TwoRegOps == {<<8, n>> : n \in (0..8) \cup {14}} \cup {<<5, 0>>, <<5, 1>>, <<9, 0>>, <<9, 1>>}

TwoRegPrograms ==
    { Assemble(<<OpNN(6, x, a), OpNN(6, y, b), Op(gn[1], x, y, gn[2])>>) :
        x \in {0, 15}, y \in {1, 15}, a \in ByteVals, b \in ByteVals,
        gn \in TwoRegOps }

\* jump targets: the start of mem, the program, the last opcode that fits, the last byte
JumpTargets == {0, 512, 514, 4094, 4095}

JumpPrograms ==
    { Assemble(<<OpAddr(1, t)>>) : t \in JumpTargets }
    \cup { Assemble(<<OpNN(6, 0, a), OpAddr(11, t)>>) : a \in ByteVals, t \in JumpTargets }

\* one opcode alone: clear, return, and words no case of the switch matches
OneWordPrograms ==
    { Assemble(<<w>>) : w \in {224, 238, 0, 291, 57344, 61440, 61695, 20481, 36865} }

\* a first sprite drawn at (a, b), then a second one drawn twice at the same place
DrawPrograms ==
    { Assemble(<<OpNN(6, 0, a), OpNN(6, 1, b),
                 OpAddr(10, 0), Op(13, 0, 1, n1),
                 OpAddr(10, i2), Op(13, 0, 1, n2), Op(13, 0, 1, n2)>>) :
        a \in {0, 62}, b \in {0, 30}, n1 \in {0, 5},
        i2 \in {0, 5, 4093}, n2 \in {0, 1, 5, 15} }

\* a sprite row of 0xFF (the word at 0x20A) drawn twice at (a, b), with the
\* x coordinate in V0 or in VF
WidePrograms ==
    { Assemble(<<OpNN(6, x, a), OpNN(6, 1, b), OpAddr(10, 522),
                 Op(13, x, 1, n), Op(13, x, 1, n), 65535>>) :
        x \in {0, 15}, a \in {60, 255}, b \in {0, 31}, n \in {1, 2} }

\* calls and returns, nested
CallPrograms ==
    { \* 0x200: call 0x206; 0x202: call 0x206; 0x204: jump 0x204; 0x206: V0 := 5; 0x208: return
      Assemble(<<8710, 8710, 4612, 24581, 238>>),
      \* 0x200: call 0x204; 0x202: jump 0x202; 0x204: call 0x208; 0x206: return;
      \* 0x208: V0 += 1; 0x20A: return
      Assemble(<<8708, 4610, 8712, 238, 28673, 238>>) }

\* timers, keys, the index register and memory
MiscPrograms ==
    { Assemble(<<OpNN(6, 0, a), OpNN(15, 0, 21), OpNN(15, 0, 24), OpNN(15, 1, 7)>>) :
        a \in {0, 2} }
    \cup { Assemble(<<OpNN(15, 0, 10), OpNN(15, 0, 10)>>) }
    \cup { Assemble(<<OpNN(6, 0, k), OpNN(14, 0, e)>>) : k \in {0, 1, 16}, e \in {158, 161, 0} }
    \cup { Assemble(<<OpNN(6, 0, a), OpNN(g, 0, nn)>>) :
             a \in ByteVals, g \in {3, 4, 7}, nn \in {1, 255} }
    \cup { Assemble(<<OpNN(12, 0, nn), OpAddr(10, i), OpNN(15, 0, 51)>>) :
             nn \in {15, 255}, i \in {768, 4093, 4094} }
    \cup { Assemble(<<OpNN(6, 0, 7), OpNN(6, 1, 9), OpAddr(10, i), OpNN(15, x, 85),
                      OpNN(6, 0, 0), OpNN(15, x, 101)>>) :
             i \in {768, 4095}, x \in {0, 1} }
    \cup { Assemble(<<OpNN(6, 0, a), OpAddr(10, 4095), OpNN(15, 0, f), Op(13, 0, 0, 1)>>) :
             a \in ByteVals, f \in {30, 41} }

\* every byte value in V2, then its digits written at 0x300
BcdPrograms ==
    { Assemble(<<OpNN(6, 2, v), OpAddr(10, 768), OpNN(15, 2, 51)>>) : v \in 0..255 }

Programs ==
    TwoRegPrograms \cup JumpPrograms \cup OneWordPrograms \cup DrawPrograms
        \cup WidePrograms \cup CallPrograms \cup MiscPrograms \cup BcdPrograms

\* d calls, each of the next word, then a return
RECURSIVE CallChain(_, _)
CallChain(d, i) ==
    IF i >= d THEN <<238>>
    ELSE <<OpAddr(2, PROGRAM_START + 2 * (i + 1))>> \o CallChain(d, i + 1)

\* the programs that fill the stack: a call of itself, a return on the empty
\* stack, and chains of calls up to the stack's size
DeepPrograms ==
    { Assemble(<<OpAddr(2, PROGRAM_START)>>), Assemble(<<238>>) }
    \cup { Assemble(CallChain(d, 0)) : d \in {1, 2, STACK_SIZE - 1, STACK_SIZE} }
    \cup CallPrograms

---------------------------------------------------------------------------
(* The state machine *)

NoFrame == [site |-> 0 - 1, sp |-> 0 - 1]

\* main before its loop: at is where main is ("load", "poll", "frame" or
\* "done"), quit its flag, returned what the last execute_cycle returned,
\* steps the execute_cycle calls since the last update_timers, ticks the
\* update_timers calls so far, between the execute_cycle calls between the last
\* two of them
Driver ==
    [at |-> "load", quit |-> FALSE, returned |-> 0, steps |-> 0, ticks |-> 0,
     between |-> 0]

Init ==
    /\ c8 = Chip8
    /\ debug_mode \in BOOLEAN
    /\ status = "running"
    /\ loaded = FALSE
    /\ pre = Chip8
    /\ pre2 = Chip8
    /\ call = "none"
    /\ call2 = "none"
    /\ fresh = TRUE
    /\ shadow = <<>>
    /\ popped = NoFrame
    /\ file = <<>>
    /\ loads = 0
    /\ driver = Driver

Record(op) ==
    /\ pre' = c8
    /\ pre2' = pre
    /\ call' = op
    /\ call2' = call
    /\ fresh' = TRUE

\* read_program_to_mem on one of the files of programs
ReadProgram(programs) ==
    /\ status = "running"
    /\ \E bytes \in programs :
          /\ IF LoadInBounds(bytes)
             THEN c8' = read_program_to_mem(c8, bytes) /\ status' = status
             ELSE c8' = c8 /\ status' = "undefined"
          /\ file' = bytes
    /\ loaded' = TRUE
    /\ loads' = loads + 1
    /\ Record("load")
    /\ UNCHANGED <<debug_mode, shadow, popped>>

\* main.cpp:548: the program is read once, into the machine as constructed
Load(programs) == ~loaded /\ ReadProgram(programs)

IsCall(m) == Opcode1(m) \div 16 = 2
IsReturn(m) == Opcode1(m) = 0 /\ Opcode2(m) = 238
IsRandom(m) == Opcode1(m) \div 16 = 12

\* the history of open calls
Shadow ==
    IF IsCall(c8)
    THEN shadow' = Append(shadow, [site |-> c8.pc, sp |-> c8.sp]) /\ popped' = NoFrame
    ELSE IF IsReturn(c8) /\ shadow # <<>>
    THEN /\ shadow' = SubSeq(shadow, 1, Len(shadow) - 1)
         /\ popped' = shadow[Len(shadow)]
    ELSE shadow' = shadow /\ popped' = NoFrame

\* main.cpp:602: one execute_cycle
Step(maxCycles) ==
    /\ status = "running"
    /\ loaded
    /\ c8.cycle_count < maxCycles
    /\ IF ~InBounds(c8)
       THEN c8' = c8 /\ status' = "undefined" /\ UNCHANGED <<shadow, popped>>
       ELSE IF debug_mode /\ NotReached(Opcode1(c8), Opcode2(c8))
       THEN c8' = c8 /\ status' = "aborted" /\ UNCHANGED <<shadow, popped>>
       ELSE /\ \E rnd \in (IF IsRandom(c8) THEN RandVals ELSE {0}) :
                 c8' = execute_cycle(c8, rnd)
            /\ status' = status
            /\ Shadow
    /\ Record("step")
    /\ UNCHANGED <<debug_mode, loaded, file, loads>>

\* main.cpp:610: update_timers
Tick ==
    /\ status = "running"
    /\ c8' = update_timers(c8)
    /\ fresh' = FALSE
    /\ UNCHANGED <<debug_mode, status, loaded, pre, pre2, call, call2, shadow, popped, file,
                 loads>>

\* main.cpp:582 and 594: the input layer sets or clears a key
KeyWrite ==
    /\ status = "running"
    /\ \E k \in 0..MaxKey, v \in {0, 1} :
          /\ c8.keys[k] # v
          /\ c8' = [c8 EXCEPT !.keys[k] = v]
    /\ fresh' = FALSE
    /\ UNCHANGED <<debug_mode, status, loaded, pre, pre2, call, call2, shadow, popped, file,
                 loads>>

\* the machine, its operations called in any order
LoadProgram == Load(Programs) /\ UNCHANGED driver
ExecuteCycle == Step(MaxCycles) /\ UNCHANGED driver
UpdateTimers == Tick /\ UNCHANGED driver
WriteKey == KeyWrite /\ UNCHANGED driver

Next == LoadProgram \/ ExecuteCycle \/ UpdateTimers \/ WriteKey

Spec == Init /\ [][Next]_vars

LoadDeepProgram == Load(DeepPrograms) /\ UNCHANGED driver
ExecuteDeepCycle == Step(MaxDeepCycles) /\ UNCHANGED driver

NextDeep == LoadDeepProgram \/ ExecuteDeepCycle \/ UpdateTimers \/ WriteKey

SpecDeep == Init /\ [][NextDeep]_vars

---------------------------------------------------------------------------
(* read_program_to_mem called on a machine in any state, on files of every *)
(* size around what mem can hold and around what program_size can hold     *)

\* execute_cycle is not called once cycle_count has reached this
MaxLoadCycles == 4
\* read_program_to_mem is not called more often than this
MaxLoads == 2

\* 0x200: V1 := 5; 0x202: delay_timer := V1; 0x204: call 0x208;
\* 0x206: jump 0x206; 0x208: draw the first font row at (V0, V1)
LoadedWords == <<24837, 61717, 8712, 4614, 53265>>

\* a file of n bytes: the program above, cut or followed by bytes that are not 0
Padded(n) ==
    LET prog == Assemble(LoadedWords)
    IN  [i \in 1..n |-> IF i <= Len(prog) THEN prog[i] ELSE (i % 255) + 1]

\* nothing, the program, the most that fits, one byte more, and a size that a
\* u16 cuts to 2
FileSizes ==
    {0, 2 * Len(LoadedWords), MEM_SIZE - PROGRAM_START, MEM_SIZE - PROGRAM_START + 1,
     65536 + 2}

LoadFiles == {Padded(n) : n \in FileSizes}

LoadFile == loads < MaxLoads /\ ReadProgram(LoadFiles) /\ UNCHANGED driver
ExecuteLoadedCycle == Step(MaxLoadCycles) /\ UNCHANGED driver

NextLoad == LoadFile \/ ExecuteLoadedCycle \/ WriteKey

SpecLoad == Init /\ [][NextLoad]_vars

---------------------------------------------------------------------------
(* main: the load, then the loop of event poll, execute_cycle and, when    *)
(* the cycle count says so, render and update_timers                       *)

\* execute_cycle is not called once cycle_count has reached this
MaxDriverCycles == 19

\* a jump to itself; a timer set, then a jump to itself; a key poll in a loop;
\* an opcode no case matches
DriverPrograms ==
    { Assemble(<<4608>>), Assemble(<<24831, 61461, 4612>>),
      Assemble(<<61450, 4608>>), Assemble(<<0>>) }

\* the test main continues on: execute_cycle() % INSTRUCTIONS_PER_FRAME != 0
FrameDueInverted(count) == count % INSTRUCTIONS_PER_FRAME # 0

\* main.cpp:602: the frame is due unless execute_cycle() % INSTRUCTIONS_PER_FRAME != 0
FrameDue(count) == count % INSTRUCTIONS_PER_FRAME = 0

\* while (!quit), evaluated after a continue or at the end of the body
LoopAgain == IF driver.quit THEN "done" ELSE "poll"

\* main.cpp:548
DriverLoad ==
    /\ driver.at = "load"
    /\ Load(DriverPrograms)
    /\ driver' = [driver EXCEPT !.at = "poll"]

\* main.cpp:574-596: a key event of the poll; quit = event.type == SDL_QUIT
PollKey ==
    /\ driver.at = "poll"
    /\ KeyWrite
    /\ driver' = [driver EXCEPT !.quit = FALSE]

\* main.cpp:598: an SDL_QUIT event of the poll
PollQuit ==
    /\ driver.at = "poll"
    /\ status = "running"
    /\ ~driver.quit
    /\ driver' = [driver EXCEPT !.quit = TRUE]
    /\ UNCHANGED <<c8, debug_mode, status, loaded, pre, pre2, call, call2, fresh,
                   shadow, popped, file, loads>>

\* main.cpp:602-605: the poll is over; execute_cycle, then continue or go on
DriverStep ==
    /\ driver.at = "poll"
    /\ Step(MaxDriverCycles)
    /\ driver' =
          IF status' # "running" THEN [driver EXCEPT !.at = "done"]
          ELSE [driver EXCEPT !.returned = c8'.cycle_count,
                              !.steps = @ + 1,
                              !.at = IF FrameDue(c8'.cycle_count)
                                     THEN "frame" ELSE LoopAgain]

\* main.cpp:607-612: sleep, render, update_timers
DriverFrame ==
    /\ driver.at = "frame"
    /\ Tick
    /\ driver' = [driver EXCEPT !.at = LoopAgain,
                                !.ticks = @ + 1,
                                !.between = driver.steps,
                                !.steps = 0]

NextDriver == DriverLoad \/ PollKey \/ PollQuit \/ DriverStep \/ DriverFrame

SpecDriver == Init /\ [][NextDriver]_vars

---------------------------------------------------------------------------
(* What the claims speak of *)

\* what execute_cycle gave its caller: the cycle count it returns, or no return
\* at all (the assert of a debug build, or undefined behaviour)
StepOutcome ==
    IF status = "aborted" THEN "abort"
    ELSE IF status = "undefined" THEN "undefined"
    ELSE "cycle_count"

\* the last operation was an execute_cycle whose opcode was fetched inside mem
Stepped == call = "step" /\ FetchInBounds(pre)
\* ... and it ran to its end
Completed == Stepped /\ status = "running"

LastOp1 == Opcode1(pre)
LastOp2 == Opcode2(pre)
LastGroup == LastOp1 \div 16
LastX == LastOp1 % 16
LastY == LastOp2 \div 16
LastN == LastOp2 % 16
LastNNN == (LastOp1 % 16) * 256 + LastOp2

\* the rows of the instruction table
InTable(opcode1, opcode2) ==
    LET g == opcode1 \div 16
    IN  \/ opcode1 = 0 /\ opcode2 \in {224, 238}
        \/ g \in {1, 2, 3, 4, 6, 7, 10, 11, 12, 13}
        \/ g \in {5, 9} /\ opcode2 % 16 = 0
        \/ g = 8 /\ opcode2 % 16 \in (0..7) \cup {14}
        \/ g = 14 /\ opcode2 \in {158, 161}
        \/ g = 15 /\ opcode2 \in {7, 10, 21, 24, 30, 41, 51, 85, 101}

\* two machines agree but for their cycle counts, timers and keys
SameCore(a, b) ==
    /\ a.pixels = b.pixels /\ a.v_reg = b.v_reg /\ a.sp = b.sp /\ a.stack = b.stack
    /\ a.pc = b.pc /\ a.i_addr_reg = b.i_addr_reg
    /\ \A x \in (DOMAIN a.mem) \cup (DOMAIN b.mem) : MemAt(a, x) = MemAt(b, x)

---------------------------------------------------------------------------
(* C1: an opcode that matches no row of the instruction table (5XYN and    *)
(* 9XYN with N # 0, 0NNN other than 00E0 and 00EE, 8XYN with N outside     *)
(* 0..7 and E, EXNN other than 9E and A1, FXNN outside the listed set)     *)
(* makes the step report UnknownOpcode and run no instruction's effect.    *)

C1_UnknownOpcodeReported ==
    (Stepped /\ ~InTable(LastOp1, LastOp2)) =>
        (StepOutcome = "UnknownOpcode" /\ SameCore(c8, pre))

\* the code on 5XY1: the comparison of 5XY0 runs and the cycle count is returned
C1_RunsAsSkip ==
    (Completed /\ LastGroup = 5 /\ LastN # 0) =>
        c8.pc = pre.pc + (IF pre.v_reg[LastX] = pre.v_reg[LastY] THEN 4 ELSE 2)

---------------------------------------------------------------------------
(* C2: stack overflow is reported: from an empty stack 16 calls in a row   *)
(* succeed and the 17th yields StackOverflow; sp is at most 16 in every    *)
(* reachable state and no call writes a return address outside stack       *)
(* entries 0..15.                                                          *)

C2_StackOverflowReported ==
    /\ c8.sp <= STACK_SIZE
    /\ (Stepped /\ IsCall(pre)) =>
          /\ StackIndices(pre) \subseteq 0..(STACK_SIZE - 1)
          /\ IF pre.sp < STACK_SIZE
             THEN StepOutcome = "cycle_count" /\ c8.sp = pre.sp + 1
             ELSE StepOutcome = "StackOverflow"

---------------------------------------------------------------------------
(* C3: stack underflow is reported: 00EE on the empty stack (sp = 0)       *)
(* yields StackUnderflow, leaves sp at 0 and reads no return address from  *)
(* outside stack entries 0..15.                                            *)

C3_StackUnderflowReported ==
    (Stepped /\ IsReturn(pre) /\ pre.sp = 0) =>
        /\ StepOutcome = "StackUnderflow"
        /\ c8.sp = 0
        /\ StackIndices(pre) \subseteq 0..(STACK_SIZE - 1)

---------------------------------------------------------------------------
(* C4: after any sequence of loads, steps and timer ticks, every address   *)
(* of memory a step reads or writes is within 0..4095: the fetch at PC and *)
(* PC+1, the sprite rows I..I+N-1 of DXYN, the three bytes I..I+2 of FX33, *)
(* the ranges I..I+X of FX55 and FX65.                                     *)

C4_AddressesInBounds ==
    call = "step" => MemAddrs(pre) \subseteq 0..(MEM_SIZE - 1)

---------------------------------------------------------------------------
(* C5: subroutine round trip: for a 2NNN run at PC = p with fewer than 16  *)
(* entries on the stack, after any properly nested calls and returns, the  *)
(* 00EE that matches it sets PC to exactly p + 2 and puts the stack        *)
(* pointer back to its value before the call.  (popped is the call the     *)
(* last 00EE matches, kept by the history apart from stack[] and sp.)      *)

C5_RoundTrip ==
    (Completed /\ IsReturn(pre) /\ popped # NoFrame /\ popped.sp < STACK_SIZE) =>
        (c8.pc = popped.site + 2 /\ c8.sp = popped.sp)

\* a return from the deepest call the stack holds, with 15 calls still open
C5_Witness ==
    /\ Completed /\ IsReturn(pre) /\ popped # NoFrame
    /\ popped.sp = STACK_SIZE - 1 /\ Len(shadow) = STACK_SIZE - 1
    /\ c8.pc = popped.site + 2

---------------------------------------------------------------------------
(* C6: jumps set PC with no trailing +2: after 1NNN the PC is NNN and      *)
(* after BNNN the PC is V0 + NNN, for every NNN and every V0.              *)

C6_JumpsSetPc ==
    /\ (Completed /\ LastGroup = 1) => c8.pc = LastNNN
    /\ (Completed /\ LastGroup = 11) => c8.pc = pre.v_reg[0] + LastNNN

\* the code: 1NNN as claimed, BNNN two further
C6_CodeJumps ==
    /\ (Completed /\ LastGroup = 1) => c8.pc = LastNNN
    /\ (Completed /\ LastGroup = 11) => c8.pc = pre.v_reg[0] + LastNNN + 2

---------------------------------------------------------------------------
(* C7: 8XY4, for every X and Y in 0..F (X = F and Y = F too): afterwards   *)
(* VF is 1 if the sum of Vx and Vy before the instruction exceeds 255 and  *)
(* 0 otherwise, and for X # F, Vx is that sum modulo 256.                  *)

C7_CarryFlag ==
    (Completed /\ LastGroup = 8 /\ LastN = 4) =>
        LET sum == pre.v_reg[LastX] + pre.v_reg[LastY]
        IN  /\ c8.v_reg[15] = (IF sum > 255 THEN 1 ELSE 0)
            /\ LastX # 15 => c8.v_reg[LastX] = sum % 256

\* the code: as claimed for X # F; for X = F the sum's low byte ends up in VF
C7_CodeCarry ==
    (Completed /\ LastGroup = 8 /\ LastN = 4) =>
        LET sum == pre.v_reg[LastX] + pre.v_reg[LastY]
        IN  IF LastX = 15 THEN c8.v_reg[15] = sum % 256
            ELSE c8.v_reg[15] = (IF sum > 255 THEN 1 ELSE 0)
                 /\ c8.v_reg[LastX] = sum % 256

---------------------------------------------------------------------------
(* C8: subtraction uses the operands from before the instruction: for X in *)
(* 0..E and Y in 0..F (Y = F too), with a and b the values of Vx and Vy    *)
(* before, 8XY5 leaves Vx = (a - b) mod 256 and VF = 1 if a > b else 0,    *)
(* and 8XY7 leaves Vx = (b - a) mod 256 and VF = 1 if b > a else 0.        *)

C8_Subtract ==
    (Completed /\ LastGroup = 8 /\ LastX # 15) =>
        LET a == pre.v_reg[LastX]
            b == pre.v_reg[LastY]
        IN  /\ LastN = 5 =>
                /\ c8.v_reg[LastX] = (a - b + 256) % 256
                /\ c8.v_reg[15] = (IF a > b THEN 1 ELSE 0)
            /\ LastN = 7 =>
                /\ c8.v_reg[LastX] = (b - a + 256) % 256
                /\ c8.v_reg[15] = (IF b > a THEN 1 ELSE 0)

\* the code: as claimed for Y # F; for Y = F the flag just written is the operand
C8_CodeSubtract ==
    (Completed /\ LastGroup = 8 /\ LastX # 15) =>
        LET a == pre.v_reg[LastX]
            b == IF LastY = 15 THEN c8.v_reg[15] ELSE pre.v_reg[LastY]
        IN  /\ LastN = 5 => c8.v_reg[LastX] = (a - b + 256) % 256
            /\ LastN = 7 => c8.v_reg[LastX] = (b - a + 256) % 256

---------------------------------------------------------------------------
(* The sprite of a DXYN as the claims state it: bit col of row r, most     *)
(* significant first, belongs at ((Vx + col) mod 64, (Vy + r) mod 32).     *)

RECURSIVE Pow2(_)
Pow2(k) == IF k = 0 THEN 1 ELSE 2 * Pow2(k - 1)

SpriteBit(byte, col) == (byte \div Pow2(7 - col)) % 2

\* where the set bits of the N rows at mem[I..I+N-1] belong
SpriteCells(m, vx, vy, rows) ==
    { <<(vx + rc[2]) % 64, (vy + rc[1]) % 32>> :
        rc \in { q \in (0..(rows - 1)) \X (0..7) :
                   SpriteBit(MemAt(m, m.i_addr_reg + q[1]), q[2]) = 1 } }

SymDiff(A, B) == (A \ B) \cup (B \ A)

\* the cells of the DXYN the last cycle ran
LastCells == SpriteCells(pre, pre.v_reg[LastX], pre.v_reg[LastY], LastN)

---------------------------------------------------------------------------
(* C9: draw twice: for any framebuffer, any sprite and any coordinates     *)
(* held in registers other than VF, the same DXYN run twice in succession  *)
(* gives back the framebuffer of before the first draw, and VF is 1 after  *)
(* the second draw.                                                        *)

\* the last two cycles ran the same DXYN, its coordinates not in VF
C9_DrawnTwice ==
    /\ Completed /\ call2 = "step" /\ FetchInBounds(pre2)
    /\ LastGroup = 13 /\ OpWord(pre2) = OpWord(pre)
    /\ LastX # 15 /\ LastY # 15

\* the claim as made
C9_DoubleDrawSetsVF ==
    C9_DrawnTwice => (c8.pixels = pre2.pixels /\ c8.v_reg[15] = 1)

\* the claim as amended: the framebuffer comes back; VF is 1 after the second
\* draw exactly when a set bit of the sprite fell on a pixel that was off before
\* the first draw
C9_DoubleDrawRestores ==
    C9_DrawnTwice =>
        /\ c8.pixels = pre2.pixels
        /\ c8.v_reg[15] = (IF LastCells \ pre2.pixels # {} THEN 1 ELSE 0)

\* a sprite drawn twice over a framebuffer that was not blank and that the
\* first draw changed, VF = 1 after the second
C9_Witness ==
    /\ C9_DrawnTwice
    /\ pre2.pixels # {} /\ pre.pixels # pre2.pixels
    /\ c8.v_reg[15] = 1

---------------------------------------------------------------------------
(* C10: DXYN, for every Vx and Vy in 0..255 and N in 0..15, XORs sprite    *)
(* bit col (most significant first) of row r into pixel ((Vx + col) mod    *)
(* 64, (Vy + r) mod 32) and changes no other pixel; afterwards VF is 1 if  *)
(* and only if a pixel went from on to off, else 0, and PC has advanced by *)
(* 2.  (The sprite rows are read inside mem: Completed.)                   *)

C10_DrawFootprint ==
    (Completed /\ LastGroup = 13) =>
        /\ c8.pixels = SymDiff(pre.pixels, LastCells)
        /\ c8.v_reg[15] = (IF LastCells \cap pre.pixels # {} THEN 1 ELSE 0)
        /\ c8.pc = pre.pc + 2

\* a row of 0xFF drawn at x = 60 over itself: columns 60..63 and 0..3 go off
C10_Witness ==
    /\ Completed /\ LastGroup = 13 /\ LastN >= 1
    /\ pre.v_reg[LastX] = 60
    /\ \E py \in 0..31 :
          /\ {<<px, py>> : px \in (60..63) \cup (0..3)} \subseteq pre.pixels
          /\ {<<px, py>> : px \in (60..63) \cup (0..3)} \cap c8.pixels = {}
    /\ c8.v_reg[15] = 1

---------------------------------------------------------------------------
(* C11: FX0A is a poll that does not block.  With no key flag set, the     *)
(* step changes neither PC nor any register, memory, stack, timer or       *)
(* pixel, so the next step is on the same FX0A; with at least one key flag *)
(* set at the time of the step, it sets Vx to 1 (not the key's index) and  *)
(* advances PC by exactly 2, and changes nothing else.                     *)

\* some key flag is set in machine m
KeyIsSet(m) == \E k \in 0..15 : m.keys[k] # 0

\* the last operation was a completed FX0A, and nothing ran since
PolledKey == Completed /\ fresh /\ LastGroup = 15 /\ LastOp2 = 10

C11_KeyPoll ==
    PolledKey =>
        /\ c8.mem = pre.mem /\ c8.stack = pre.stack /\ c8.sp = pre.sp
        /\ c8.pixels = pre.pixels /\ c8.i_addr_reg = pre.i_addr_reg
        /\ c8.delay_timer = pre.delay_timer /\ c8.sound_timer = pre.sound_timer
        /\ c8.keys = pre.keys
        /\ IF KeyIsSet(pre)
           THEN /\ c8.pc = pre.pc + 2
                /\ c8.v_reg = [pre.v_reg EXCEPT ![LastX] = 1]
           ELSE /\ c8.pc = pre.pc /\ c8.v_reg = pre.v_reg
                /\ OpWord(c8) = OpWord(pre)

\* an FX0A polled with no key set, then, the key 0 set, polled again: Vx is 1
C11_Witness ==
    /\ PolledKey /\ call2 = "step"
    /\ pre2.pc = pre.pc /\ ~KeyIsSet(pre2) /\ pre.keys[0] = 1
    /\ c8.pc = pre.pc + 2 /\ c8.v_reg[LastX] = 1

---------------------------------------------------------------------------
(* C12: each update_timers lowers delay_timer by exactly 1 if it is not 0  *)
(* and leaves it at 0 if it is 0, and does the same for sound_timer,       *)
(* whatever delay_timer is; no timer goes from 0 to 255, and nothing else  *)
(* in the machine changes.                                                 *)

\* a timer of value t after one tick
Lowered(t) == IF t = 0 THEN 0 ELSE t - 1

C12_TimerFloor ==
    [][Tick =>
        /\ c8'.delay_timer = Lowered(c8.delay_timer)
        /\ c8'.sound_timer = Lowered(c8.sound_timer)
        /\ c8' = [c8 EXCEPT !.delay_timer = c8'.delay_timer,
                            !.sound_timer = c8'.sound_timer]]_vars

\* FX15 set the delay timer to 2, one tick, FX18 set the sound timer to 2, one
\* more tick: the delay timer is at its floor and the sound timer is not
C12_Witness ==
    /\ Completed /\ ~fresh /\ LastGroup = 15 /\ LastOp2 = 24
    /\ pre.delay_timer = 1 /\ pre.sound_timer = 0 /\ pre.v_reg[LastX] = 2
    /\ c8.delay_timer = 0 /\ c8.sound_timer = 1

---------------------------------------------------------------------------
(* C13: load rejects a program longer than 4096 - 0x200 = 3584 bytes with  *)
(* a TooLarge outcome and writes no byte at or beyond address 4096; a      *)
(* program of at most 3584 bytes loads, with its bytes at 0x200 onward and *)
(* the font table at 0..79.                                                *)

\* what read_program_to_mem gave its caller on a file that opens: true, or
\* nothing that is defined
LoadOutcome == IF status = "undefined" THEN "undefined" ELSE "true"

\* the addresses fread writes
LoadAddrs == PROGRAM_START..(PROGRAM_START + ProgramSize(file) - 1)

\* the last operation was a load, and nothing ran since
JustLoaded == call = "load" /\ fresh

\* the file is in mem at 0x200 onward, and the font table at 0..79
FileInMem ==
    /\ \A i \in 1..Len(file) : MemAt(c8, PROGRAM_START + i - 1) = file[i]
    /\ \A i \in 1..Len(fonts) : MemAt(c8, i - 1) = fonts[i]

C13_OversizedRejected ==
    JustLoaded =>
        IF Len(file) > 4096 - 512
        THEN LoadOutcome = "TooLarge" /\ LoadAddrs \subseteq 0..4095
        ELSE LoadOutcome = "true" /\ FileInMem

\* the code on a file that fits: it is in mem, with the fonts
C13_FittingLoads ==
    (JustLoaded /\ Len(file) <= 4096 - 512) => (LoadOutcome = "true" /\ FileInMem)

---------------------------------------------------------------------------
(* C14: a load that succeeds, called in any machine state (also after      *)
(* steps have run), sets PC to 0x200 and the cycle count to 0, and leaves  *)
(* V0..VF, I, both timers, the stack and the stack pointer, the            *)
(* framebuffer and the key buffer as they were.                            *)

\* the last operation was a load of a file that fits, and nothing ran since
LoadedFitting == JustLoaded /\ status = "running" /\ Len(file) <= 4096 - 512

\* what a load leaves alone
LoadFrame ==
    /\ c8.v_reg = pre.v_reg /\ c8.i_addr_reg = pre.i_addr_reg
    /\ c8.delay_timer = pre.delay_timer /\ c8.sound_timer = pre.sound_timer
    /\ c8.stack = pre.stack /\ c8.sp = pre.sp
    /\ c8.pixels = pre.pixels /\ c8.keys = pre.keys

C14_LoadResets ==
    LoadedFitting => (c8.pc = 512 /\ c8.cycle_count = 0 /\ LoadFrame)

\* the code: PC is 0x200, the cycle count is the one of before the load
C14_CodeLoad ==
    LoadedFitting =>
        (c8.pc = 512 /\ c8.cycle_count = pre.cycle_count /\ LoadFrame)

---------------------------------------------------------------------------
(* C15: the cycle count counts the execute_cycle calls: every one of them  *)
(* increases it by exactly 1 and returns the new value, whatever the       *)
(* opcode (an FX0A that does not advance PC and an opcode that matches no  *)
(* case included), and update_timers never changes it.                     *)

\* since the last execute_cycle, timer ticks and key writes may have run
C15_CountsSteps ==
    (call = "step") =>
        (StepOutcome = "cycle_count" /\ c8.cycle_count = pre.cycle_count + 1)

\* the code: an execute_cycle that returns has counted itself
C15_ReturnedCounts ==
    (call = "step" /\ StepOutcome = "cycle_count") =>
        c8.cycle_count = pre.cycle_count + 1

---------------------------------------------------------------------------
(* C16: 3XNN, 4XNN, 5XY0, 9XY0, and EX9E and EXA1 with Vx in 0..15,        *)
(* advance PC by exactly 4 when the documented condition holds (Vx = NN,   *)
(* Vx # NN, Vx = Vy, Vx # Vy, key Vx pressed, key Vx not pressed) and by   *)
(* exactly 2 otherwise, and change no register, memory, stack, timer or    *)
(* pixel; on the same state exactly one of 3XNN and 4XNN skips, exactly    *)
(* one of 5XY0 and 9XY0, and exactly one of EX9E and EXA1.                 *)

\* the opcode fetched in machine m is one of the six skips
IsSkip(m) ==
    LET g == Opcode1(m) \div 16
    IN  \/ g \in {3, 4}
        \/ g \in {5, 9} /\ Opcode2(m) % 16 = 0
        \/ g = 14 /\ Opcode2(m) \in {158, 161} /\ m.v_reg[Opcode1(m) % 16] \in 0..15

\* the documented condition of the skip fetched in machine m
SkipCondition(m) ==
    LET g == Opcode1(m) \div 16
        vx == m.v_reg[Opcode1(m) % 16]
        vy == m.v_reg[Opcode2(m) \div 16]
    IN  CASE g = 3 -> vx = Opcode2(m)
          [] g = 4 -> vx # Opcode2(m)
          [] g = 5 -> vx = vy
          [] g = 9 -> vx # vy
          [] g = 14 /\ Opcode2(m) = 158 -> m.keys[vx] # 0
          [] OTHER -> m.keys[vx] = 0

\* the first byte of the other skip of the pair
PairedOp1(m) ==
    LET g == Opcode1(m) \div 16
    IN  CASE g = 3 -> Opcode1(m) + 16
          [] g = 4 -> Opcode1(m) - 16
          [] g = 5 -> Opcode1(m) + 64
          [] g = 9 -> Opcode1(m) - 64
          [] OTHER -> Opcode1(m)

\* its second byte
PairedOp2(m) ==
    IF Opcode1(m) \div 16 # 14 THEN Opcode2(m)
    ELSE IF Opcode2(m) = 158 THEN 161 ELSE 158

\* the last operation was one of the six skips, run to its end; nothing ran since
Skipped == Completed /\ fresh /\ IsSkip(pre)

C16_Skips ==
    Skipped =>
        /\ c8.pc = pre.pc + (IF SkipCondition(pre) THEN 4 ELSE 2)
        /\ c8 = [pre EXCEPT !.pc = c8.pc, !.cycle_count = c8.cycle_count]
        /\ (c8.pc = pre.pc + 4)
              # (decode_instruction(pre, PairedOp1(pre), PairedOp2(pre), 0).pc
                    = pre.pc + 4)

\* EX9E with the key Vx pressed: the next instruction is skipped
C16_Witness ==
    /\ Skipped /\ LastGroup = 14 /\ LastOp2 = 158
    /\ pre.keys[pre.v_reg[LastX]] = 1
    /\ c8.pc = pre.pc + 4

---------------------------------------------------------------------------
(* C17: the shifts put the dropped bit in VF as exactly 0 or 1.  For every *)
(* X in 0..E and every value v of Vx, 8XY6 leaves VF = v mod 2 and Vx = v  *)
(* div 2, and 8XYE leaves VF = 1 if v >= 128, else 0, and Vx = (2 * v) mod *)
(* 256; Vy plays no part: the result is the same whatever Vy holds, and no *)
(* register other than Vx and VF changes.                                  *)

\* the last operation was a shift of a register other than VF, run to its end
Shifted == Completed /\ LastGroup = 8 /\ LastN \in {6, 14} /\ LastX # 15

C17_Shifts ==
    Shifted =>
        LET v == pre.v_reg[LastX]
        IN  /\ c8.v_reg =
                 IF LastN = 6
                 THEN [pre.v_reg EXCEPT ![LastX] = v \div 2, ![15] = v % 2]
                 ELSE [pre.v_reg EXCEPT ![LastX] = (2 * v) % 256,
                                        ![15] = IF v >= 128 THEN 1 ELSE 0]
            /\ c8.v_reg[15] \in {0, 1}
            /\ c8.pc = pre.pc + 2

\* 8016 with V0 = 255 and V1 = 0: V0 = 127 and VF = 1
C17_Witness ==
    /\ Shifted /\ LastN = 6 /\ LastY = 1
    /\ pre.v_reg[LastX] = 255 /\ pre.v_reg[1] = 0
    /\ c8.v_reg[LastX] = 127 /\ c8.v_reg[15] = 1

\* 801E with V0 = 128 and V1 = 1: V0 = 0 and VF = 1
C17_WitnessLeft ==
    /\ Shifted /\ LastN = 14 /\ LastY = 1
    /\ pre.v_reg[LastX] = 128 /\ pre.v_reg[1] = 1
    /\ c8.v_reg[LastX] = 0 /\ c8.v_reg[15] = 1

---------------------------------------------------------------------------
(* C18: FX33, for every value v of Vx in 0..255 and every I with I + 2 <=  *)
(* 4095, leaves mem[I] = hundreds, mem[I+1] = tens and mem[I+2] = ones of  *)
(* v, each digit in 0..9, with 100 * mem[I] + 10 * mem[I+1] + mem[I+2] =   *)
(* v; Vx, I and every other byte of memory are unchanged and PC has        *)
(* advanced by 2.                                                          *)

\* the last operation was an FX33 with its three bytes inside mem
Decomposed ==
    /\ Completed /\ LastGroup = 15 /\ LastOp2 = 51
    /\ pre.i_addr_reg + 2 <= 4095

C18_Bcd ==
    Decomposed =>
        LET v == pre.v_reg[LastX]
            I == pre.i_addr_reg
        IN  /\ {MemAt(c8, I), MemAt(c8, I + 1), MemAt(c8, I + 2)} \subseteq 0..9
            /\ 100 * MemAt(c8, I) + 10 * MemAt(c8, I + 1) + MemAt(c8, I + 2) = v
            /\ \A a \in ((DOMAIN c8.mem) \cup (DOMAIN pre.mem)) \ {I, I + 1, I + 2} :
                  MemAt(c8, a) = MemAt(pre, a)
            /\ c8.v_reg = pre.v_reg /\ c8.i_addr_reg = I
            /\ c8.pc = pre.pc + 2

\* 199 decomposed into 1, 9, 9
C18_Witness ==
    /\ Decomposed /\ pre.v_reg[LastX] = 199
    /\ MemAt(c8, pre.i_addr_reg) = 1
    /\ MemAt(c8, pre.i_addr_reg + 1) = 9
    /\ MemAt(c8, pre.i_addr_reg + 2) = 9

\* the digits written at the last three bytes of mem
C18_WitnessTop ==
    /\ Decomposed /\ pre.i_addr_reg = 4093 /\ pre.v_reg[LastX] = 255
    /\ MemAt(c8, 4095) = 5

---------------------------------------------------------------------------
(* C19: in a release build, an opcode that reaches one of the decoder's    *)
(* invalid-opcode branches (groups 0x0, 0x8, 0xE, 0xF) changes nothing but *)
(* the cycle count; PC stays on it and its bytes are not rewritten, so     *)
(* every later step runs the same opcode again: without a reload, the      *)
(* machine makes no progress any more.                                     *)

\* the opcode at PC of machine m falls in one of the four default branches
AtInvalid(m) ==
    /\ FetchInBounds(m)
    /\ Opcode1(m) \div 16 \in {0, 8, 14, 15}
    /\ ~InTable(Opcode1(m), Opcode2(m))

\* a loaded machine of a release build, on such an opcode
Stuck == loaded /\ ~debug_mode /\ status = "running" /\ AtInvalid(c8)

\* from there on every operation leaves the machine on that opcode; an
\* execute_cycle changes the cycle count alone, and a timer tick or a key write
\* changes nothing but the timers and the keys
C19_StuckForever ==
    [][Stuck =>
        /\ Stuck'
        /\ SameCore(c8', c8) /\ OpWord(c8') = OpWord(c8)
        /\ (c8'.cycle_count # c8.cycle_count) =>
              c8' = [c8 EXCEPT !.cycle_count = c8.cycle_count + 1]]_vars

\* 6000 E000: the third execute_cycle is on E000 for the second time
C19_Witness ==
    /\ Stuck /\ call = "step" /\ call2 = "step"
    /\ AtInvalid(pre) /\ AtInvalid(pre2)
    /\ LastGroup = 14 /\ pre2.pc = pre.pc /\ c8.pc = pre.pc /\ c8.pc # 512
    /\ c8.cycle_count = pre2.cycle_count + 2

---------------------------------------------------------------------------
(* C20: in main's loop the timers are tied to the instruction count:       *)
(* update_timers (with the render) runs exactly once after each            *)
(* execute_cycle whose returned cycle count is a multiple of               *)
(* INSTRUCTIONS_PER_FRAME (9), so exactly 9 execute_cycle calls happen     *)
(* between two consecutive timer ticks; and the event poll writes the key  *)
(* buffer only between execute_cycle calls, never during one.              *)

\* an execute_cycle returned a multiple of 9 and update_timers has not run since
FramePending ==
    driver.returned > 0 /\ driver.returned % 9 = 0 /\ driver.steps > 0

\* where main stands, by its counts
Paced ==
    /\ driver.returned = c8.cycle_count
    /\ driver.ticks * 9 + driver.steps = c8.cycle_count
    /\ (driver.at = "frame") = FramePending
    /\ driver.ticks >= 1 => driver.between = 9

C20_FramePacing ==
    [][/\ Paced'
       \* update_timers runs once, on a pending frame, after 9 execute_cycle calls
       /\ (driver'.ticks # driver.ticks) =>
             /\ FramePending /\ driver.steps = 9
             /\ driver'.ticks = driver.ticks + 1
             /\ c8' = update_timers(c8)
       \* no execute_cycle and no key write while a frame is pending
       /\ FramePending => (driver'.ticks # driver.ticks)
       \* a key write is no part of an execute_cycle
       /\ (c8'.keys # c8.keys) =>
             (driver.at = "poll" /\ c8' = [c8 EXCEPT !.keys = c8'.keys])
      ]_vars

\* 18 execute_cycle calls and two timer ticks, 9 calls between them; FX15 had
\* set the delay timer to 255, and the poll has set key 0
C20_Witness ==
    /\ driver.ticks = 2 /\ driver.between = 9 /\ c8.cycle_count = 18
    /\ c8.delay_timer = 253 /\ c8.keys[0] = 1

=============================================================================
